---- MODULE Spec2Model ----
(***************************************************************************)
(* Model of the remcons telnet user session (uspace/srv/hid/remcons/user.c)*)
(* of HelenOS: the session registry, the receive path with its telnet      *)
(* filter, the batched send path and the local-client reference count.     *)
(*                                                                         *)
(* Fibrils are cooperative: a fibril runs until it blocks on a fibril      *)
(* mutex, on tcp_conn_recv_wait or on tcp_conn_send.  Every action below   *)
(* is the code a fibril runs between two such suspension points.           *)
(***************************************************************************)
EXTENDS Integers, Sequences, FiniteSets, TLC

(***************************************************************************)
(* Bounds of the model.                                                    *)
(***************************************************************************)
BUFFER_SIZE == 3     \* capacity of socket_buffer (scaled down)
SEND_BUF_SIZE == 2   \* capacity of send_buf (scaled down)
MaxNet == 4          \* bytes the peer sends over one connection
MaxCap == 2          \* largest destination buffer handed to telnet_user_recv
MaxCalls == 3        \* send-path calls made on one session
MaxAttach == 2       \* client connections one session has at a time
MaxTries == 2        \* try-downs of one lock attempt that are counted
AllCalls == 1        \* send-path calls made where every operation is exercised

(***************************************************************************)
(* Byte values the code tests for.                                         *)
(***************************************************************************)
NUL == 0
BS == 8
LF == 10
CR == 13
TELNET_WILL == 251
TELNET_DONT == 254
TELNET_IAC == 255

Users == {1, 2}      \* the telnet_user_t objects that exist
Tasks == {1, 2, 3}   \* the fibrils
Clients == {1, 2}    \* the fibrils that serve local clients
NoUser == 0
NoTask == 0

\* Bytes a peer sends: NUL, CR, 'A', DO, IAC.
PeerBytes == {NUL, CR, 65, 253, TELNET_IAC}

Min(a, b) == IF a < b THEN a ELSE b

RECURSIVE SeqsUpTo(_, _)
SeqsUpTo(S, n) ==
    IF n = 0 THEN {<<>>}
    ELSE LET shorter == SeqsUpTo(S, n - 1)
         IN shorter \cup {Append(s, x) : s \in {q \in shorter : Len(q) = n - 1}, x \in S}

VARIABLES
    users,                    \* the list `users`, in list order
    users_guard,              \* fibril holding users_guard, or NoTask
    ustate,                   \* per user: "created", "added" or "freed"
    service_id,               \* user->service_id
    guard,                    \* fibril holding user->guard, or NoTask
    socket_closed,
    task_finished,
    srv_aborted,              \* user->srvs.aborted
    locsrv_connection_count,
    socket_buffer,            \* the bytes of the last fill
    socket_buffer_len,
    socket_buffer_pos,
    send_buf,                 \* send_buf[0 .. send_buf_used), each byte with the call it came from
    send_buf_used,
    cursor_x,
    cursor_y,
    rows,
    net,                      \* bytes the peer sent that TCP has not handed over yet
    peer_closed,              \* the peer closed its side of the connection
    wire,                     \* bytes handed to tcp_conn_send, each with the call it came from
    pc,                       \* per fibril: where it is suspended
    cur,                      \* per fibril: the user its call works on
    loc,                      \* per fibril: the locals of its call
    ret,                      \* what the last call that returned gave back
    sent,                     \* history: every byte the peer sent
    delivered,                \* history: every byte telnet_user_recv stored for a caller
    nfills,                   \* history: fills of socket_buffer
    submitted,                \* history: bytes given to telnet_user_send_data
    ncalls,                   \* history: send-path calls that took the guard
    raw_used,                 \* history: telnet_user_send_raw was called
    send_failed,              \* history: tcp_conn_send failed
    held,                     \* per fibril and user: lookups that returned the user
                              \* minus telnet_user_notify_client_disconnected calls
    mtx,                      \* the kernel mutex: its type, its semaphore and its holders
    crashed                   \* the server task was killed

regVars == <<users, users_guard, ustate, service_id>>
lifeVars == <<socket_closed, task_finished, srv_aborted, locsrv_connection_count>>
recvVars == <<socket_buffer, socket_buffer_len, socket_buffer_pos>>
sendVars == <<send_buf, send_buf_used, cursor_x, cursor_y, rows>>
netVars == <<net, peer_closed, wire>>
taskVars == <<pc, cur, loc, ret>>
recvHist == <<sent, delivered, nfills>>
sendHist == <<submitted, ncalls, raw_used, send_failed>>
refHist == <<held>>
vars == <<regVars, mtx, guard, lifeVars, recvVars, sendVars, netVars, taskVars,
          recvHist, sendHist, refHist, crashed>>

\* The fields of a session a call can change, as they are when the call starts
\* (out: the number of bytes the session has taken for TCP so far).
NoEntry == [pos |-> 0, len |-> 0, used |-> 0, buf |-> <<>>, x |-> 0, y |-> 0,
            closed |-> FALSE, finished |-> FALSE, count |-> 0, out |-> 0]
NoLoc == [size |-> 0, nread |-> 0, dst |-> <<>>, cap |-> 0, pre |-> FALSE,
          rest |-> <<>>, remain |-> 0, op |-> "none", entry |-> NoEntry,
          data |-> <<>>, new_x |-> 0, usec |-> 0, flags |-> 0, tries |-> 0,
          count |-> 0]
NoRet == [op |-> "none", user |-> NoUser, rc |-> "EOK", n |-> 0, data |-> <<>>,
          cap |-> 0, pre |-> FALSE, before |-> 0, after |-> 0, res |-> NoUser,
          id |-> 0, reg |-> FALSE, new_x |-> 0, c0 |-> [x |-> 0, y |-> 0],
          c1 |-> [x |-> 0, y |-> 0], app |-> <<>>, failed |-> FALSE,
          thread |-> NoTask, usec |-> 0, flags |-> 0, tries |-> 0]

(***************************************************************************)
(* mutex_initialize: the type and a semaphore that starts at 1.  The       *)
(* semaphore is a wait queue: missed_wakeups is its count, sleepers the    *)
(* threads asleep in it, in order of arrival.  locked_by is history: the   *)
(* threads whose _mutex_lock_timeout succeeded and that did not call       *)
(* mutex_unlock since.                                                     *)
(***************************************************************************)
MUTEX_PASSIVE == "MUTEX_PASSIVE"
MUTEX_ACTIVE == "MUTEX_ACTIVE"

\* Mutant: the semaphore starts at 2.
MutexInitialize_Two(type) ==
    [type |-> type, missed_wakeups |-> 2, sleepers |-> <<>>, locked_by |-> {}]

\* mutex_initialize(mtx, type)
MutexInitialize(type) ==
    [type |-> type, missed_wakeups |-> 1, sleepers |-> <<>>, locked_by |-> {}]

(***************************************************************************)
(* telnet_user_create: the fields of a new user.                           *)
(***************************************************************************)
InitUsers ==
    /\ users = <<>>
    /\ users_guard = NoTask
    /\ ustate = [u \in Users |-> "created"]
    /\ service_id = [u \in Users |-> 100 + u]   \* set by the caller before telnet_user_add
    /\ guard = [u \in Users |-> NoTask]
    /\ socket_closed = [u \in Users |-> FALSE]
    /\ task_finished = [u \in Users |-> FALSE]
    /\ srv_aborted = [u \in Users |-> FALSE]
    /\ locsrv_connection_count = [u \in Users |-> 0]
    /\ socket_buffer = [u \in Users |-> <<>>]
    /\ socket_buffer_len = [u \in Users |-> 0]
    /\ socket_buffer_pos = [u \in Users |-> 0]
    /\ send_buf = [u \in Users |-> <<>>]
    /\ send_buf_used = [u \in Users |-> 0]
    /\ cursor_x = [u \in Users |-> 0]
    /\ cursor_y = [u \in Users |-> 0]
    /\ peer_closed = [u \in Users |-> FALSE]
    /\ wire = [u \in Users |-> <<>>]
    /\ pc = [t \in Tasks |-> "idle"]
    /\ cur = [t \in Tasks |-> NoUser]
    /\ loc = [t \in Tasks |-> NoLoc]
    /\ ret = NoRet
    /\ delivered = [u \in Users |-> <<>>]
    /\ nfills = [u \in Users |-> 0]
    /\ submitted = [u \in Users |-> <<>>]
    /\ ncalls = [u \in Users |-> 0]
    /\ raw_used = [u \in Users |-> FALSE]
    /\ send_failed = [u \in Users |-> FALSE]
    /\ held = [t \in Tasks |-> [u \in Users |-> 0]]
    /\ crashed = FALSE

\* The sessions as created and a kernel mutex no thread uses.
InitCommon ==
    /\ InitUsers
    /\ mtx = MutexInitialize(MUTEX_PASSIVE)

\* Mutant: a guard that excludes nobody.
GuardFree_NoExclusion(u) == TRUE

(***************************************************************************)
(* fibril_mutex_lock(&user->guard) returns once no fibril holds the guard. *)
(***************************************************************************)
GuardFree(u) == guard[u] = NoTask

\* The state of user u a call starts from.
Snapshot(u) ==
    [pos |-> socket_buffer_pos[u], len |-> socket_buffer_len[u],
     used |-> send_buf_used[u], buf |-> send_buf[u],
     x |-> cursor_x[u], y |-> cursor_y[u], closed |-> socket_closed[u],
     finished |-> task_finished[u], count |-> locsrv_connection_count[u],
     out |-> Len(wire[u]) + Len(send_buf[u])]

\* A fibril can start a call on a user that has not been freed.
CanCall(t, u) ==
    /\ ~crashed
    /\ pc[t] = "idle"
    /\ ustate[u] # "freed"

(***************************************************************************)
(* Receive path.                                                           *)
(***************************************************************************)
IsOptionCode(b) == b >= TELNET_WILL /\ b <= TELNET_DONT

\* telnet_user_byte_avail
ByteAvail(len, pos) == len > pos

\* One pass of the body of the inner loop of telnet_user_recv on `byte`
\* (process_telnet_command only logs; telnet_option_code is used for the log alone).
FilterByte(inside, byte) ==
    LET in1 == IF inside THEN IsOptionCode(byte) ELSE FALSE
        nb1 == IF inside THEN NUL ELSE byte
    IN IF byte = TELNET_IAC
       THEN [inside |-> TRUE, next_byte |-> NUL]
       ELSE [inside |-> in1, next_byte |-> nb1]

\* while (next_byte == 0 && telnet_user_byte_avail(user))
InnerContinue(next_byte, avail) == next_byte = NUL /\ avail

\* Mutant: no CR-LF conversion.
CrLfConv_None(next_byte) == next_byte

\* CR-LF conversion
CrLfConv(next_byte) == IF next_byte = CR THEN LF ELSE next_byte

\* Mutant: the outer loop goes on while the destination has room.
OuterContinue_Always(size, avail, nread) == size > 0

\* Mutant: the outer loop stops when the buffer is drained, bytes stored or not.
OuterContinue_NoFirst(size, avail, nread) == size > 0 /\ avail

\* while (size > 0 && (telnet_user_byte_avail(user) || *nread == 0))
OuterContinue(size, avail, nread) == size > 0 /\ (avail \/ nread = 0)

(***************************************************************************)
(* The loops of telnet_user_recv from a point where a byte is buffered, up *)
(* to the return ("done") or to the next tcp_conn_recv_wait ("fill").      *)
(* `inside` is inside_telnet_command, a local of the outer loop's body.    *)
(***************************************************************************)
RECURSIVE RecvLoop(_, _, _, _, _, _)
RecvLoop(buf, pos, size, nread, dst, inside) ==
    LET f == FilterByte(inside, buf[pos + 1])
        pos2 == pos + 1
        avail == ByteAvail(Len(buf), pos2)
    IN IF InnerContinue(f.next_byte, avail)
       THEN RecvLoop(buf, pos2, size, nread, dst, f.inside)
       ELSE LET nb == CrLfConv(f.next_byte)
                dst2 == IF nb # NUL THEN Append(dst, nb) ELSE dst
                nread2 == IF nb # NUL THEN nread + 1 ELSE nread
                size2 == IF nb # NUL THEN size - 1 ELSE size
            IN IF OuterContinue(size2, avail, nread2)
               THEN IF avail
                    THEN RecvLoop(buf, pos2, size2, nread2, dst2, FALSE)
                    ELSE [pc |-> "fill", pos |-> pos2, size |-> size2,
                          nread |-> nread2, dst |-> dst2]
               ELSE [pc |-> "done", pos |-> pos2, size |-> size2,
                     nread |-> nread2, dst |-> dst2]

\* The state after RecvLoop stopped with result r in a call with capacity cap.
RecvAfter(t, u, r, cap, pre) ==
    /\ socket_buffer_pos' = [socket_buffer_pos EXCEPT ![u] = r.pos]
    /\ IF r.pc = "done"
       THEN /\ pc' = [pc EXCEPT ![t] = "idle"]
            /\ cur' = [cur EXCEPT ![t] = NoUser]
            /\ loc' = [loc EXCEPT ![t] = NoLoc]
            /\ ret' = [NoRet EXCEPT !.op = "recv", !.user = u,
                           !.rc = "EOK", !.n = r.nread, !.data = r.dst,
                           !.cap = cap, !.pre = pre]
            /\ guard' = [guard EXCEPT ![u] = NoTask]
            /\ delivered' = [delivered EXCEPT ![u] = @ \o r.dst]
       ELSE /\ pc' = [pc EXCEPT ![t] = "recv_wait"]
            /\ cur' = [cur EXCEPT ![t] = u]
            /\ loc' = [loc EXCEPT ![t] = [NoLoc EXCEPT !.size = r.size,
                           !.nread = r.nread, !.dst = r.dst, !.cap = cap,
                           !.pre = pre, !.op = "recv"]]
            /\ ret' = ret
            /\ guard' = [guard EXCEPT ![u] = t]
            /\ delivered' = delivered

\* telnet_user_recv(user, buf, cap, &nread) up to its first suspension.
RecvCall(t, u, cap) ==
    /\ CanCall(t, u)
    /\ GuardFree(u)
    /\ LET r == IF ByteAvail(socket_buffer_len[u], socket_buffer_pos[u])
                THEN RecvLoop(socket_buffer[u], socket_buffer_pos[u], cap, 0, <<>>, FALSE)
                ELSE [pc |-> "fill", pos |-> socket_buffer_pos[u], size |-> cap,
                      nread |-> 0, dst |-> <<>>]
       IN RecvAfter(t, u, r, cap, socket_closed[u])
    /\ UNCHANGED <<regVars, mtx, lifeVars, socket_buffer, socket_buffer_len, sendVars,
                   netVars, sent, nfills, sendHist, refHist, crashed>>

\* tcp_conn_recv_wait returns k > 0 bytes; telnet_user_recv goes on.
RecvFillData(t, k) ==
    LET u == cur[t] IN
    /\ ~crashed
    /\ pc[t] = "recv_wait"
    /\ k >= 1 /\ k <= Min(BUFFER_SIZE, Len(net[u]))
    /\ LET chunk == SubSeq(net[u], 1, k)
           r == RecvLoop(chunk, 0, loc[t].size, loc[t].nread, loc[t].dst, FALSE)
       IN /\ socket_buffer' = [socket_buffer EXCEPT ![u] = chunk]
          /\ socket_buffer_len' = [socket_buffer_len EXCEPT ![u] = k]
          /\ net' = [net EXCEPT ![u] = SubSeq(@, k + 1, Len(@))]
          /\ nfills' = [nfills EXCEPT ![u] = @ + 1]
          /\ RecvAfter(t, u, r, loc[t].cap, loc[t].pre)
    /\ UNCHANGED <<regVars, mtx, lifeVars, sendVars, peer_closed, wire, sent,
                   sendHist, refHist, crashed>>

\* Mutant: the error return of telnet_user_recv keeps the guard locked.
RecvFail_NoUnlock(t, u, rc) ==
    /\ pc' = [pc EXCEPT ![t] = "idle"]
    /\ cur' = [cur EXCEPT ![t] = NoUser]
    /\ ret' = [NoRet EXCEPT !.op = "recv", !.user = u, !.rc = rc,
                   !.n = loc[t].nread, !.data = loc[t].dst, !.cap = loc[t].cap,
                   !.pre = loc[t].pre]
    /\ loc' = [loc EXCEPT ![t] = NoLoc]
    /\ guard' = guard

\* A call of telnet_user_recv returns rc without storing a byte.
RecvFail(t, u, rc) ==
    /\ pc' = [pc EXCEPT ![t] = "idle"]
    /\ cur' = [cur EXCEPT ![t] = NoUser]
    /\ ret' = [NoRet EXCEPT !.op = "recv", !.user = u, !.rc = rc,
                   !.n = loc[t].nread, !.data = loc[t].dst, !.cap = loc[t].cap,
                   !.pre = loc[t].pre]
    /\ loc' = [loc EXCEPT ![t] = NoLoc]
    /\ guard' = [guard EXCEPT ![u] = NoTask]

\* tcp_conn_recv_wait returns zero bytes: the peer closed the connection.
RecvFillEof(t) ==
    LET u == cur[t] IN
    /\ ~crashed
    /\ pc[t] = "recv_wait"
    /\ net[u] = <<>> /\ peer_closed[u]
    /\ socket_closed' = [socket_closed EXCEPT ![u] = TRUE]
    /\ srv_aborted' = [srv_aborted EXCEPT ![u] = TRUE]
    /\ RecvFail(t, u, "ENOENT")
    /\ UNCHANGED <<regVars, mtx, task_finished, locsrv_connection_count, recvVars, sendVars,
                   netVars, recvHist, sendHist, refHist, crashed>>

\* tcp_conn_recv_wait fails.
RecvFillError(t) ==
    LET u == cur[t] IN
    /\ ~crashed
    /\ pc[t] = "recv_wait"
    /\ RecvFail(t, u, "EIO")
    /\ UNCHANGED <<regVars, mtx, lifeVars, recvVars, sendVars, netVars, recvHist,
                   sendHist, refHist, crashed>>

\* The peer's close reaches TCP, after the last byte the peer sent.
PeerClose(u) ==
    /\ ~crashed
    /\ ~peer_closed[u]
    /\ net[u] = <<>>
    /\ peer_closed' = [peer_closed EXCEPT ![u] = TRUE]
    /\ UNCHANGED <<regVars, mtx, guard, lifeVars, recvVars, sendVars, net, wire, taskVars,
                   recvHist, sendHist, refHist, crashed>>

(***************************************************************************)
(* The receive path of one session: the peer of user 1 sends any stream of *)
(* at most MaxNet bytes, TCP hands it over in any chunks, and the session's*)
(* network fibril calls telnet_user_recv again and again.                  *)
(***************************************************************************)
RecvUser == CHOOSE u \in Users : \A v \in Users : u <= v
RecvTask == CHOOSE t \in Tasks : \A o \in Tasks : t <= o

InitRecv ==
    /\ InitCommon
    /\ rows = [u \in Users |-> 2]
    /\ \E s \in SeqsUpTo(PeerBytes, MaxNet) :
           sent = [u \in Users |-> IF u = RecvUser THEN s ELSE <<>>]
    /\ net = sent

NextRecv ==
    \/ \E cap \in 1 .. MaxCap : RecvCall(RecvTask, RecvUser, cap)
    \/ \E k \in 1 .. BUFFER_SIZE : RecvFillData(RecvTask, k)
    \/ RecvFillEof(RecvTask)
    \/ RecvFillError(RecvTask)
    \/ PeerClose(RecvUser)

SpecRecv == InitRecv /\ [][NextRecv]_vars

(***************************************************************************)
(* Send path.  A byte in send_buf or on the wire is <<value, call>>, call  *)
(* being the number of the send-path call that submitted it, counted in    *)
(* the order the calls took user->guard.                                   *)
(***************************************************************************)
Tag(data, tk) == [i \in 1 .. Len(data) |-> <<data[i], tk>>]
Bytes(tagged) == [i \in 1 .. Len(tagged) |-> tagged[i][1]]

\* The conversion loop of telnet_user_send_data_locked: the bytes of `converted`.
RECURSIVE Convert(_)
Convert(data) ==
    IF data = <<>> THEN <<>>
    ELSE (IF Head(data) = LF THEN <<CR, LF>> ELSE <<Head(data)>>) \o Convert(Tail(data))

\* Mutant: the row is incremented on every LF, last row or not.
RECURSIVE CursorAfter_NoRowLimit(_, _, _)
CursorAfter_NoRowLimit(c, nrows, data) ==
    IF data = <<>> THEN c
    ELSE LET b == Head(data)
             c2 == IF b = LF
                   THEN [x |-> 0, y |-> c.y + 1]
                   ELSE IF b = BS THEN [x |-> c.x - 1, y |-> c.y]
                   ELSE [x |-> c.x + 1, y |-> c.y]
         IN CursorAfter_NoRowLimit(c2, nrows, Tail(data))

\* The same loop: the cursor after the bytes of data, from cursor c = [x, y].
RECURSIVE CursorAfter(_, _, _)
CursorAfter(c, nrows, data) ==
    IF data = <<>> THEN c
    ELSE LET b == Head(data)
             c2 == IF b = LF
                   THEN [x |-> 0, y |-> IF c.y < nrows - 1 THEN c.y + 1 ELSE c.y]
                   ELSE IF b = BS THEN [x |-> c.x - 1, y |-> c.y]
                   ELSE [x |-> c.x + 1, y |-> c.y]
         IN CursorAfter(c2, nrows, Tail(data))

\* What tcp_conn_send(conn, send_buf, n) puts on the wire.
TcpSent(buf, n) == SubSeq(buf, 1, Min(n, Len(buf)))

\* Mutant: the copy goes to the start of send_buf, over the bytes batched before.
CopyIn_Front(buf, used, data, now) == SubSeq(data, 1, now)

\* memcpy(user->send_buf + user->send_buf_used, data, now)
CopyIn(buf, used, data, now) == SubSeq(buf, 1, used) \o SubSeq(data, 1, now)

\* send_buf_used after a successful tcp_conn_send of the batch.
UsedAfterSend == 0

\* Mutant: the copy takes all the bytes that are left, slack or not.
Now_NoMin(remain, size) == size

\* now = min(remain, size)
Now(remain, size) == Min(remain, size)

\* Mutant: a full batch is sent at once, bytes left to append or not.
RECURSIVE RawLoop_Eager(_, _, _, _)
RawLoop_Eager(buf, used, remain, data) ==
    IF remain = 0
    THEN [pc |-> "tcp_send", buf |-> buf, used |-> used, remain |-> remain, rest |-> data]
    ELSE IF Len(data) = 0
    THEN [pc |-> "done", buf |-> buf, used |-> used, remain |-> remain, rest |-> data]
    ELSE LET now == Now(remain, Len(data))
         IN RawLoop_Eager(CopyIn(buf, used, data, now), used + now, remain - now,
                          SubSeq(data, now + 1, Len(data)))

\* The loop of telnet_user_send_raw_locked up to its return ("done") or to
\* its next tcp_conn_send ("tcp_send").
RECURSIVE RawLoop(_, _, _, _)
RawLoop(buf, used, remain, data) ==
    IF Len(data) = 0
    THEN [pc |-> "done", buf |-> buf, used |-> used, remain |-> remain, rest |-> data]
    ELSE IF remain = 0
    THEN [pc |-> "tcp_send", buf |-> buf, used |-> used, remain |-> remain, rest |-> data]
    ELSE LET now == Now(remain, Len(data))
         IN RawLoop(CopyIn(buf, used, data, now), used + now, remain - now,
                    SubSeq(data, now + 1, Len(data)))

\* Mutant: telnet_user_update_cursor_x does not store new_x.
CursorAtReturn_Keep(l, c) == c

\* The cursor a send-path call l leaves when it returns with the cursor at c:
\* telnet_user_update_cursor_x stores new_x last.
CursorAtReturn(l, c) ==
    IF l.op = "update_cursor_x" THEN [x |-> l.new_x, y |-> c.y] ELSE c

\* A send-path call l of fibril t on user u ends with rc from
\* telnet_user_send_raw_locked or tcp_conn_send (telnet_user_update_cursor_x
\* ignores it); out is every byte the session has taken for TCP by then.
SendReturn(t, u, l, rc, c, out) ==
    /\ pc' = [pc EXCEPT ![t] = "idle"]
    /\ cur' = [cur EXCEPT ![t] = NoUser]
    /\ loc' = [loc EXCEPT ![t] = NoLoc]
    /\ ret' = [NoRet EXCEPT !.op = l.op, !.user = u, !.data = l.data,
                   !.rc = IF l.op = "update_cursor_x" THEN "EOK" ELSE rc,
                   !.failed = (rc # "EOK"),
                   !.new_x = l.new_x, !.c0 = [x |-> l.entry.x, y |-> l.entry.y],
                   !.c1 = CursorAtReturn(l, c), !.before = l.entry.used,
                   !.app = Bytes(SubSeq(out, l.entry.out + 1, Len(out)))]
    /\ guard' = [guard EXCEPT ![u] = NoTask]
    /\ cursor_x' = [cursor_x EXCEPT ![u] = CursorAtReturn(l, c).x]
    /\ cursor_y' = [cursor_y EXCEPT ![u] = c.y]

\* The state after RawLoop stopped with result r in call l, the cursor at c
\* and w on the wire.
SendAfter(t, u, r, l, c, w) ==
    /\ send_buf' = [send_buf EXCEPT ![u] = r.buf]
    /\ send_buf_used' = [send_buf_used EXCEPT ![u] = r.used]
    /\ IF r.pc = "done"
       THEN SendReturn(t, u, l, "EOK", c, w \o r.buf)
       ELSE /\ pc' = [pc EXCEPT ![t] = "tcp_send"]
            /\ cur' = [cur EXCEPT ![t] = u]
            /\ loc' = [loc EXCEPT ![t] = [l EXCEPT !.rest = r.rest,
                                                   !.remain = r.remain]]
            /\ ret' = ret
            /\ guard' = [guard EXCEPT ![u] = t]
            /\ cursor_x' = [cursor_x EXCEPT ![u] = c.x]
            /\ cursor_y' = [cursor_y EXCEPT ![u] = c.y]

\* The locals of a send-path call `op` that starts on user u.
SendLoc(u, op, data, new_x) ==
    [NoLoc EXCEPT !.op = op, !.entry = Snapshot(u), !.data = data, !.new_x = new_x]

\* The cursor of user u.
Cursor(u) == [x |-> cursor_x[u], y |-> cursor_y[u]]

\* telnet_user_send_data(user, data, size) up to its first suspension.
SendDataCall(t, u, data) ==
    /\ CanCall(t, u)
    /\ GuardFree(u)
    /\ ncalls[u] < MaxCalls
    /\ LET tk == ncalls[u] + 1
           c == CursorAfter(Cursor(u), rows[u], data)
           r == RawLoop(send_buf[u], send_buf_used[u],
                        SEND_BUF_SIZE - send_buf_used[u], Tag(Convert(data), tk))
       IN /\ ncalls' = [ncalls EXCEPT ![u] = tk]
          /\ SendAfter(t, u, r, SendLoc(u, "send_data", data, 0), c, wire[u])
    /\ submitted' = [submitted EXCEPT ![u] = @ \o data]
    /\ UNCHANGED <<regVars, mtx, lifeVars, recvVars, rows, netVars, recvHist, raw_used,
                   send_failed, refHist, crashed>>

\* telnet_user_send_raw(user, data, size) up to its first suspension.
SendRawCall(t, u, data) ==
    /\ CanCall(t, u)
    /\ GuardFree(u)
    /\ ncalls[u] < MaxCalls
    /\ LET tk == ncalls[u] + 1
           r == RawLoop(send_buf[u], send_buf_used[u],
                        SEND_BUF_SIZE - send_buf_used[u], Tag(data, tk))
       IN /\ ncalls' = [ncalls EXCEPT ![u] = tk]
          /\ SendAfter(t, u, r, SendLoc(u, "send_raw", data, 0), Cursor(u), wire[u])
    /\ raw_used' = [raw_used EXCEPT ![u] = TRUE]
    /\ UNCHANGED <<regVars, mtx, lifeVars, recvVars, rows, netVars,
                   recvHist, submitted, send_failed, refHist, crashed>>

\* telnet_user_update_cursor_x(user, new_x) up to its first suspension: a
\* backspace goes through telnet_user_send_data_locked when new_x is one
\* column to the left, and new_x is stored.
UpdateCursorCall(t, u, new_x) ==
    /\ CanCall(t, u)
    /\ GuardFree(u)
    /\ ncalls[u] < MaxCalls
    /\ LET tk == ncalls[u] + 1
           l == SendLoc(u, "update_cursor_x", <<>>, new_x)
       IN /\ ncalls' = [ncalls EXCEPT ![u] = tk]
          /\ IF cursor_x[u] - 1 = new_x
             THEN /\ SendAfter(t, u,
                         RawLoop(send_buf[u], send_buf_used[u],
                                 SEND_BUF_SIZE - send_buf_used[u],
                                 Tag(Convert(<<BS>>), tk)),
                         l, CursorAfter(Cursor(u), rows[u], <<BS>>), wire[u])
                  /\ submitted' = [submitted EXCEPT ![u] = @ \o <<BS>>]
             ELSE /\ SendReturn(t, u, l, "EOK", Cursor(u), wire[u] \o send_buf[u])
                  /\ UNCHANGED <<send_buf, send_buf_used, submitted>>
    /\ UNCHANGED <<regVars, mtx, lifeVars, recvVars, rows, netVars, recvHist, raw_used,
                   send_failed, refHist, crashed>>

\* tcp_conn_send of the full batch succeeds; telnet_user_send_raw_locked goes on.
SendTcpOk(t) ==
    LET u == cur[t]
        w == wire[u] \o TcpSent(send_buf[u], SEND_BUF_SIZE)
    IN
    /\ ~crashed
    /\ pc[t] = "tcp_send"
    /\ wire' = [wire EXCEPT ![u] = w]
    /\ LET r == RawLoop(send_buf[u], UsedAfterSend, SEND_BUF_SIZE, loc[t].rest)
       IN SendAfter(t, u, r, loc[t], Cursor(u), w)
    /\ UNCHANGED <<regVars, mtx, lifeVars, recvVars, rows, net,
                   peer_closed, recvHist, sendHist, refHist, crashed>>

\* Mutant: send_buf_used is reset before the result of tcp_conn_send is tested.
SendTcpError_Reset(t) ==
    LET u == cur[t] IN
    /\ ~crashed
    /\ pc[t] = "tcp_send"
    /\ SendReturn(t, u, loc[t], "EIO", Cursor(u), wire[u] \o send_buf[u])
    /\ send_failed' = [send_failed EXCEPT ![u] = TRUE]
    /\ send_buf_used' = [send_buf_used EXCEPT ![u] = 0]
    /\ send_buf' = [send_buf EXCEPT ![u] = <<>>]
    /\ UNCHANGED <<regVars, mtx, lifeVars, recvVars, rows, netVars,
                   recvHist, submitted, ncalls, raw_used, refHist, crashed>>

\* tcp_conn_send of the full batch fails; telnet_user_send_raw_locked returns
\* the error (telnet_user_update_cursor_x ignores it).
SendTcpError(t) ==
    LET u == cur[t] IN
    /\ ~crashed
    /\ pc[t] = "tcp_send"
    /\ SendReturn(t, u, loc[t], "EIO", Cursor(u), wire[u] \o send_buf[u])
    /\ send_failed' = [send_failed EXCEPT ![u] = TRUE]
    /\ UNCHANGED <<regVars, mtx, lifeVars, recvVars, send_buf, send_buf_used, rows, netVars,
                   recvHist, submitted, ncalls, raw_used, refHist, crashed>>

\* telnet_user_flush(user) up to its tcp_conn_send.
FlushCall(t, u) ==
    /\ CanCall(t, u)
    /\ GuardFree(u)
    /\ pc' = [pc EXCEPT ![t] = "flush_send"]
    /\ cur' = [cur EXCEPT ![t] = u]
    /\ loc' = [loc EXCEPT ![t] = SendLoc(u, "flush", <<>>, 0)]
    /\ guard' = [guard EXCEPT ![u] = t]
    /\ UNCHANGED <<regVars, mtx, lifeVars, recvVars, sendVars, netVars, ret, recvHist,
                   sendHist, refHist, crashed>>

\* The tcp_conn_send of telnet_user_flush succeeds.
FlushTcpOk(t) ==
    LET u == cur[t]
        w == wire[u] \o TcpSent(send_buf[u], send_buf_used[u])
    IN
    /\ ~crashed
    /\ pc[t] = "flush_send"
    /\ wire' = [wire EXCEPT ![u] = w]
    /\ send_buf_used' = [send_buf_used EXCEPT ![u] = 0]
    /\ send_buf' = [send_buf EXCEPT ![u] = SubSeq(@, 1, 0)]
    /\ SendReturn(t, u, loc[t], "EOK", Cursor(u), w)
    /\ UNCHANGED <<regVars, mtx, lifeVars, recvVars, rows, net,
                   peer_closed, recvHist, sendHist, refHist, crashed>>

\* The tcp_conn_send of telnet_user_flush fails.
FlushTcpError(t) ==
    LET u == cur[t] IN
    /\ ~crashed
    /\ pc[t] = "flush_send"
    /\ SendReturn(t, u, loc[t], "EIO", Cursor(u), wire[u] \o send_buf[u])
    /\ send_failed' = [send_failed EXCEPT ![u] = TRUE]
    /\ UNCHANGED <<regVars, mtx, lifeVars, recvVars, send_buf, send_buf_used, rows, netVars,
                   recvHist, submitted, ncalls, raw_used, refHist, crashed>>

(***************************************************************************)
(* The send path of one session: local fibrils call telnet_user_send_data, *)
(* telnet_user_send_raw and telnet_user_flush on user 1 in any order, and  *)
(* every tcp_conn_send either succeeds or fails.                           *)
(***************************************************************************)
SendUser == CHOOSE u \in Users : \A v \in Users : u <= v
\* Data runs: 'a', LF, backspace, 'a' LF, LF LF, 'a' LF 'b'.  Raw runs: ESC, ESC [ H.
DataRuns == {<<97>>, <<LF>>, <<BS>>, <<97, LF>>, <<LF, LF>>, <<97, LF, 98>>}
RawRuns == {<<27>>, <<27, 91, 72>>}
\* Columns the local console reports: one to the left of the cursor, one to the right.
NewXs(u) == {cursor_x[u] - 1, cursor_x[u] + 1}

InitSend ==
    /\ InitCommon
    /\ rows = [u \in Users |-> 2]
    /\ sent = [u \in Users |-> <<>>]
    /\ net = sent

NextSend ==
    \/ \E t \in Clients, d \in DataRuns : SendDataCall(t, SendUser, d)
    \/ \E t \in Clients, d \in RawRuns : SendRawCall(t, SendUser, d)
    \/ \E t \in Clients, x \in NewXs(SendUser) : UpdateCursorCall(t, SendUser, x)
    \/ \E t \in Clients : SendTcpOk(t)
    \/ \E t \in Clients : SendTcpError(t)
    \/ \E t \in Clients : FlushCall(t, SendUser)
    \/ \E t \in Clients : FlushTcpOk(t)
    \/ \E t \in Clients : FlushTcpError(t)

SpecSend == InitSend /\ [][NextSend]_vars

(***************************************************************************)
(* Session registry and local-client references.                           *)
(***************************************************************************)
UsersFree == users_guard = NoTask

\* Successful lookups of u minus the detaches from u: the references held.
RECURSIVE SumHeld(_, _)
SumHeld(u, T) ==
    IF T = {} THEN 0
    ELSE LET t == CHOOSE x \in T : TRUE IN held[t][u] + SumHeld(u, T \ {t})
Refs(u) == SumHeld(u, Tasks)

\* telnet_user_is_zombie's test, also made by the lookup.
Zombie(u) == socket_closed[u] \/ task_finished[u]

\* list_append(&user->link, &users)
ListAppend(l, u) == Append(l, u)

\* Mutant: telnet_user_destroy leaves the user linked.
ListRemove_Noop(l, u) == l

\* list_remove(&user->link)
ListRemove(l, u) == SelectSeq(l, LAMBDA x : x # u)

\* The list_foreach of the lookup: the first user of the list with this
\* service id, NoUser when there is none.
RECURSIVE ListFind(_, _)
ListFind(l, id) ==
    IF l = <<>> THEN NoUser
    ELSE IF service_id[Head(l)] = id THEN Head(l)
    ELSE ListFind(Tail(l), id)

\* The user that carries service id `id`, registered or not.
UserOf(id) == IF \E u \in Users : service_id[u] = id
              THEN CHOOSE u \in Users : service_id[u] = id
              ELSE NoUser

\* telnet_user_add
Add(t, u) ==
    /\ CanCall(t, u)
    /\ ustate[u] = "created"
    /\ UsersFree
    /\ users' = ListAppend(users, u)
    /\ ustate' = [ustate EXCEPT ![u] = "added"]
    /\ UNCHANGED <<users_guard, service_id, mtx, guard, lifeVars, recvVars, sendVars,
                   netVars, taskVars, recvHist, sendHist, refHist, crashed>>

\* telnet_user_destroy, called while no fibril is inside a call on the user.
Destroy(t, u) ==
    /\ CanCall(t, u)
    /\ \A o \in Tasks : cur[o] # u
    /\ UsersFree
    /\ users' = ListRemove(users, u)
    /\ ustate' = [ustate EXCEPT ![u] = "freed"]
    /\ UNCHANGED <<users_guard, service_id, mtx, guard, lifeVars, recvVars, sendVars,
                   netVars, taskVars, recvHist, sendHist, refHist, crashed>>

\* What the lookup of `id` found and returned, for the claims.
LookupRet(id, res, rc, before, after) ==
    LET w == UserOf(id)
    IN [NoRet EXCEPT !.op = "lookup", !.id = id, !.user = w, !.res = res, !.rc = rc,
           !.before = before, !.after = after,
           !.reg = (w # NoUser /\ ustate[w] = "added"),
           !.pre = (w # NoUser /\ Zombie(w))]

(***************************************************************************)
(* telnet_user_get_for_client_connection from the point it holds both      *)
(* users_guard and the guard of the user u it found.  For a zombie the code *)
(* sets user = NULL and then decrements user->locsrv_connection_count:     *)
(* undefined behaviour.  A build either traps on the access (the server    *)
(* task is killed, the count stays incremented) or has the branch removed  *)
(* as unreachable (the zombie is returned, the count stays incremented).   *)
(***************************************************************************)
Attach(t, u, id) ==
    LET before == locsrv_connection_count[u] IN
    /\ locsrv_connection_count' = [locsrv_connection_count EXCEPT ![u] = before + 1]
    /\ IF Zombie(u)
       THEN \E outcome \in {"trap", "elided"} :
              IF outcome = "trap"
              THEN /\ crashed' = TRUE
                   /\ pc' = [pc EXCEPT ![t] = "killed"]
                   /\ cur' = [cur EXCEPT ![t] = u]
                   /\ users_guard' = t
                   /\ guard' = [guard EXCEPT ![u] = t]
                   /\ ret' = LookupRet(id, NoUser, "TRAP", before, before + 1)
                   /\ held' = held
              ELSE /\ crashed' = crashed
                   /\ pc' = [pc EXCEPT ![t] = "idle"]
                   /\ cur' = [cur EXCEPT ![t] = NoUser]
                   /\ users_guard' = NoTask
                   /\ guard' = [guard EXCEPT ![u] = NoTask]
                   /\ ret' = LookupRet(id, u, "EOK", before, before + 1)
                   /\ held' = [held EXCEPT ![t][u] = @ + 1]
       ELSE /\ crashed' = crashed
            /\ pc' = [pc EXCEPT ![t] = "idle"]
            /\ cur' = [cur EXCEPT ![t] = NoUser]
            /\ users_guard' = NoTask
            /\ guard' = [guard EXCEPT ![u] = NoTask]
            /\ ret' = LookupRet(id, u, "EOK", before, before + 1)
            /\ held' = [held EXCEPT ![t][u] = @ + 1]
    /\ loc' = [loc EXCEPT ![t] = NoLoc]
    /\ UNCHANGED <<users, ustate, service_id, mtx, socket_closed, task_finished,
                   srv_aborted, recvVars, sendVars, netVars, recvHist, sendHist>>

\* telnet_user_get_for_client_connection(id) up to its first suspension.
LookupCall(t, id) ==
    /\ ~crashed
    /\ pc[t] = "idle"
    /\ UsersFree
    /\ LET u == ListFind(users, id)
       IN IF u = NoUser
          THEN /\ ret' = LookupRet(id, NoUser, "EOK", 0, 0)
               /\ UNCHANGED <<regVars, mtx, guard, lifeVars, recvVars, sendVars, netVars,
                              pc, cur, loc, recvHist, sendHist, refHist, crashed>>
          ELSE /\ Refs(u) < MaxAttach
               /\ IF GuardFree(u)
                  THEN Attach(t, u, id)
                  ELSE /\ users_guard' = t
                       /\ pc' = [pc EXCEPT ![t] = "lookup_guard"]
                       /\ cur' = [cur EXCEPT ![t] = u]
                       /\ loc' = [loc EXCEPT ![t] = [NoLoc EXCEPT !.op = "lookup",
                                                      !.cap = id]]
                       /\ UNCHANGED <<users, ustate, service_id, mtx, guard, lifeVars,
                                      recvVars, sendVars, netVars, ret, recvHist,
                                      sendHist, refHist, crashed>>

\* The lookup gets the guard of the user it found.
LookupGuard(t) ==
    /\ ~crashed
    /\ pc[t] = "lookup_guard"
    /\ GuardFree(cur[t])
    /\ Attach(t, cur[t], loc[t].cap)

\* fibril_condvar_signal(&user->refcount_cv): a fibril waiting on the condition
\* variable of u becomes runnable (a session has at most one waiter).
CondvarSignal(u) ==
    [t \in Tasks |-> IF pc[t] = "cv_wait" /\ cur[t] = u THEN "cv_woken" ELSE pc[t]]

\* telnet_user_notify_client_disconnected, by a fibril that holds a reference.
Detach(t, u) ==
    /\ CanCall(t, u)
    /\ held[t][u] > 0
    /\ GuardFree(u)
    /\ IF locsrv_connection_count[u] > 0
       THEN /\ locsrv_connection_count' = [locsrv_connection_count EXCEPT ![u] = @ - 1]
            /\ crashed' = crashed
       ELSE /\ locsrv_connection_count' = locsrv_connection_count
            /\ crashed' = TRUE
    /\ held' = [held EXCEPT ![t][u] = @ - 1]
    /\ pc' = CondvarSignal(u)
    /\ UNCHANGED <<regVars, mtx, guard, socket_closed, task_finished, srv_aborted,
                   recvVars, sendVars, netVars, cur, loc, ret, recvHist, sendHist>>

(***************************************************************************)
(* The registry and the life of the sessions: fibrils add, look up, detach *)
(* from and destroy the users and the network fibrils sit in               *)
(* telnet_user_recv                                                        *)
(* (the peers send no data in this specification, they only close).        *)
(***************************************************************************)
LookupIds == {service_id[u] : u \in Users} \cup {100}

InitReg ==
    /\ InitCommon
    /\ rows = [u \in Users |-> 2]
    /\ sent = [u \in Users |-> <<>>]
    /\ net = sent

NextReg ==
    \/ \E t \in Clients, u \in Users : Add(t, u)
    \/ \E t \in Clients, u \in Users : Destroy(t, u)
    \/ \E t \in Clients, id \in LookupIds : LookupCall(t, id)
    \/ \E t \in Clients : LookupGuard(t)
    \/ \E t \in Clients, u \in Users : Detach(t, u)
    \/ \E t \in Clients, u \in Users : RecvCall(t, u, 1)
    \/ \E t \in Clients : RecvFillEof(t)
    \/ \E t \in Clients : RecvFillError(t)
    \/ \E u \in Users : PeerClose(u)

SpecReg == InitReg /\ [][NextReg]_vars

(***************************************************************************)
(* The life of a session up to its destruction.  The fibril that owns the  *)
(* session adds it and later shuts it down: it waits on refcount_cv until  *)
(* the session is a zombie no client holds and then calls                  *)
(* telnet_user_destroy.  The wait and the exit of the session's task are   *)
(* code of remcons.c.                                                      *)
(***************************************************************************)
Owner == CHOOSE t \in Tasks : t \notin Clients

\* The condition the shutdown path waits for.
CanDestroy(u) == locsrv_connection_count[u] = 0 /\ Zombie(u)

\* The task launched for the session exited: the flag is set under the guard
\* and refcount_cv is signalled.
TaskFinished(u) ==
    /\ ~crashed
    /\ ustate[u] = "added"
    /\ ~task_finished[u]
    /\ GuardFree(u)
    /\ task_finished' = [task_finished EXCEPT ![u] = TRUE]
    /\ pc' = CondvarSignal(u)
    /\ UNCHANGED <<regVars, mtx, guard, socket_closed, srv_aborted, locsrv_connection_count,
                   recvVars, sendVars, netVars, cur, loc, ret, recvHist, sendHist,
                   refHist, crashed>>

\* telnet_user_destroy from the point it holds users_guard.
DestroyLocked(t, u) ==
    /\ users' = ListRemove(users, u)
    /\ ustate' = [ustate EXCEPT ![u] = "freed"]
    /\ pc' = [pc EXCEPT ![t] = "idle"]
    /\ cur' = [cur EXCEPT ![t] = NoUser]

\* The shutdown path holding the guard of u: wait on refcount_cv (which
\* releases the guard) or release the guard and call telnet_user_destroy,
\* which suspends when users_guard is taken.
ShutdownCheck(t, u) ==
    IF CanDestroy(u)
    THEN IF UsersFree
         THEN DestroyLocked(t, u)
         ELSE /\ pc' = [pc EXCEPT ![t] = "destroy"]
              /\ cur' = [cur EXCEPT ![t] = u]
              /\ UNCHANGED <<users, ustate>>
    ELSE /\ pc' = [pc EXCEPT ![t] = "cv_wait"]
         /\ cur' = [cur EXCEPT ![t] = u]
         /\ UNCHANGED <<users, ustate>>

\* The owner starts the shutdown of u.
ShutdownCall(t, u) ==
    /\ CanCall(t, u)
    /\ ustate[u] = "added"
    /\ GuardFree(u)
    /\ ShutdownCheck(t, u)
    /\ UNCHANGED <<users_guard, service_id, mtx, guard, lifeVars, recvVars, sendVars,
                   netVars, loc, ret, recvHist, sendHist, refHist, crashed>>

\* The waiter, signalled, takes the guard again and tests its condition again.
ShutdownWake(t) ==
    /\ ~crashed
    /\ pc[t] = "cv_woken"
    /\ GuardFree(cur[t])
    /\ ShutdownCheck(t, cur[t])
    /\ UNCHANGED <<users_guard, service_id, mtx, guard, lifeVars, recvVars, sendVars,
                   netVars, loc, ret, recvHist, sendHist, refHist, crashed>>

\* telnet_user_destroy gets users_guard.
ShutdownDestroy(t) ==
    /\ ~crashed
    /\ pc[t] = "destroy"
    /\ UsersFree
    /\ DestroyLocked(t, cur[t])
    /\ UNCHANGED <<users_guard, service_id, mtx, guard, lifeVars, recvVars, sendVars,
                   netVars, loc, ret, recvHist, sendHist, refHist, crashed>>

\* telnet_user_is_zombie
IsZombie(t, u) ==
    /\ CanCall(t, u)
    /\ GuardFree(u)
    /\ ret' = [NoRet EXCEPT !.op = "is_zombie", !.user = u, !.pre = Zombie(u)]
    /\ UNCHANGED <<regVars, mtx, guard, lifeVars, recvVars, sendVars, netVars, pc, cur,
                   loc, recvHist, sendHist, refHist, crashed>>

InitLife ==
    /\ InitCommon
    /\ rows = [u \in Users |-> 2]
    /\ sent = [u \in Users |-> <<>>]
    /\ net = sent

\* The session whose life is followed, and the ids looked up: its own and
\* one no session has.
LifeUser == CHOOSE u \in Users : \A v \in Users : u <= v
LifeIds == {service_id[LifeUser], 100}

NextLife ==
    \/ Add(Owner, LifeUser)
    \/ \E t \in Clients, id \in LifeIds : LookupCall(t, id)
    \/ \E t \in Clients : LookupGuard(t)
    \/ \E t \in Clients : Detach(t, LifeUser)
    \/ \E t \in Clients : IsZombie(t, LifeUser)
    \/ \E t \in Clients : RecvCall(t, LifeUser, 1)
    \/ \E t \in Clients : RecvFillEof(t)
    \/ \E t \in Clients : RecvFillError(t)
    \/ PeerClose(LifeUser)
    \/ TaskFinished(LifeUser)
    \/ ShutdownCall(Owner, LifeUser)
    \/ ShutdownWake(Owner)
    \/ ShutdownDestroy(Owner)

SpecLife == InitLife /\ [][NextLife]_vars

(***************************************************************************)
(* Both directions of one session: its network fibril receives what the    *)
(* peer sends (NUL 'A' CR, then the close) while the fibril of a local     *)
(* client writes 'a' LF or ESC to it, moves its cursor one column to the   *)
(* left and flushes.                                                       *)
(***************************************************************************)
NetTask == CHOOSE t \in Clients : \A o \in Clients : t <= o
LocalTask == CHOOSE t \in Clients : t # NetTask
IoStream == <<NUL, 65, CR>>
IoData == <<97, LF>>
IoRaw == <<27>>

InitIo ==
    /\ InitCommon
    /\ rows = [u \in Users |-> 2]
    /\ sent = [u \in Users |-> IF u = LifeUser THEN IoStream ELSE <<>>]
    /\ net = sent

NextIo ==
    \/ \E cap \in 1 .. MaxCap : RecvCall(NetTask, LifeUser, cap)
    \/ \E k \in 1 .. BUFFER_SIZE : RecvFillData(NetTask, k)
    \/ RecvFillEof(NetTask)
    \/ RecvFillError(NetTask)
    \/ PeerClose(LifeUser)
    \/ SendDataCall(LocalTask, LifeUser, IoData)
    \/ SendRawCall(LocalTask, LifeUser, IoRaw)
    \/ UpdateCursorCall(LocalTask, LifeUser, cursor_x[LifeUser] - 1)
    \/ SendTcpOk(LocalTask)
    \/ SendTcpError(LocalTask)
    \/ FlushCall(LocalTask, LifeUser)
    \/ FlushTcpOk(LocalTask)
    \/ FlushTcpError(LocalTask)

SpecIo == InitIo /\ [][NextIo]_vars

(***************************************************************************)
(* Every operation of user.c on one session: the owner adds the session    *)
(* and shuts it down, the session's network fibril receives (the peer      *)
(* sends nothing and closes), the fibril of a local client looks the       *)
(* session up, writes to it, moves its cursor, flushes and detaches.       *)
(***************************************************************************)
NextAll ==
    \/ Add(Owner, LifeUser)
    \/ \E id \in LifeIds : LookupCall(LocalTask, id)
    \/ LookupGuard(LocalTask)
    \/ Detach(LocalTask, LifeUser)
    \/ IsZombie(LocalTask, LifeUser)
    \/ RecvCall(NetTask, LifeUser, 1)
    \/ RecvFillEof(NetTask)
    \/ RecvFillError(NetTask)
    \/ PeerClose(LifeUser)
    \/ ncalls[LifeUser] < AllCalls /\ SendDataCall(LocalTask, LifeUser, IoData)
    \/ ncalls[LifeUser] < AllCalls /\ SendRawCall(LocalTask, LifeUser, IoRaw)
    \/ ncalls[LifeUser] < AllCalls
          /\ UpdateCursorCall(LocalTask, LifeUser, cursor_x[LifeUser] - 1)
    \/ SendTcpOk(LocalTask)
    \/ SendTcpError(LocalTask)
    \/ FlushCall(LocalTask, LifeUser)
    \/ FlushTcpOk(LocalTask)
    \/ FlushTcpError(LocalTask)
    \/ TaskFinished(LifeUser)
    \/ ShutdownCall(Owner, LifeUser)
    \/ ShutdownWake(Owner)
    \/ ShutdownDestroy(Owner)

SpecAll == InitLife /\ [][NextAll]_vars

(***************************************************************************)
(* Two sessions and the calls that suspend on users_guard.  Session FairA   *)
(* has its network fibril, which sits in tcp_conn_recv_wait for as long as  *)
(* the peer is silent, and a local client that looks it up; the owner adds, *)
(* looks up and destroys session FairB.  A call that finds users_guard      *)
(* taken suspends in fibril_mutex_lock and goes on once it is released.     *)
(***************************************************************************)
FairA == LifeUser
FairB == CHOOSE u \in Users : u # FairA

\* telnet_user_add(u): done at once, or suspended on users_guard.
AddCall(t, u) ==
    /\ CanCall(t, u)
    /\ ustate[u] = "created"
    /\ IF UsersFree
       THEN /\ users' = ListAppend(users, u)
            /\ ustate' = [ustate EXCEPT ![u] = "added"]
            /\ UNCHANGED <<pc, cur>>
       ELSE /\ pc' = [pc EXCEPT ![t] = "add"]
            /\ cur' = [cur EXCEPT ![t] = u]
            /\ UNCHANGED <<users, ustate>>
    /\ UNCHANGED <<users_guard, service_id, mtx, guard, lifeVars, recvVars, sendVars,
                   netVars, loc, ret, recvHist, sendHist, refHist, crashed>>

\* telnet_user_add gets users_guard.
AddLocked(t) ==
    /\ ~crashed
    /\ pc[t] = "add"
    /\ UsersFree
    /\ users' = ListAppend(users, cur[t])
    /\ ustate' = [ustate EXCEPT ![cur[t]] = "added"]
    /\ pc' = [pc EXCEPT ![t] = "idle"]
    /\ cur' = [cur EXCEPT ![t] = NoUser]
    /\ UNCHANGED <<users_guard, service_id, mtx, guard, lifeVars, recvVars, sendVars,
                   netVars, loc, ret, recvHist, sendHist, refHist, crashed>>

\* telnet_user_destroy(u), called while no fibril is inside a call on u: done
\* at once, or suspended on users_guard (ShutdownDestroy is its resumption).
DestroyCall(t, u) ==
    /\ CanCall(t, u)
    /\ ustate[u] = "added"
    /\ \A o \in Tasks : cur[o] # u
    /\ IF UsersFree
       THEN DestroyLocked(t, u)
       ELSE /\ pc' = [pc EXCEPT ![t] = "destroy"]
            /\ cur' = [cur EXCEPT ![t] = u]
            /\ UNCHANGED <<users, ustate>>
    /\ UNCHANGED <<users_guard, service_id, mtx, guard, lifeVars, recvVars, sendVars,
                   netVars, loc, ret, recvHist, sendHist, refHist, crashed>>

\* telnet_user_get_for_client_connection(id) finds users_guard taken.
LookupEnter(t, id) ==
    /\ ~crashed
    /\ pc[t] = "idle"
    /\ ~UsersFree
    /\ UserOf(id) # NoUser => Refs(UserOf(id)) < MaxAttach
    /\ pc' = [pc EXCEPT ![t] = "lookup_users"]
    /\ loc' = [loc EXCEPT ![t] = [NoLoc EXCEPT !.op = "lookup", !.cap = id]]
    /\ UNCHANGED <<regVars, mtx, guard, lifeVars, recvVars, sendVars, netVars, cur, ret,
                   recvHist, sendHist, refHist, crashed>>

\* The lookup gets users_guard, searches the list and locks the guard of the
\* user it found.
LookupUsers(t) ==
    /\ ~crashed
    /\ pc[t] = "lookup_users"
    /\ UsersFree
    /\ LET id == loc[t].cap
           u == ListFind(users, id)
       IN IF u = NoUser
          THEN /\ ret' = LookupRet(id, NoUser, "EOK", 0, 0)
               /\ pc' = [pc EXCEPT ![t] = "idle"]
               /\ loc' = [loc EXCEPT ![t] = NoLoc]
               /\ UNCHANGED <<regVars, mtx, guard, lifeVars, recvVars, sendVars, netVars,
                              cur, recvHist, sendHist, refHist, crashed>>
          ELSE IF GuardFree(u)
               THEN Attach(t, u, id)
               ELSE /\ users_guard' = t
                    /\ pc' = [pc EXCEPT ![t] = "lookup_guard"]
                    /\ cur' = [cur EXCEPT ![t] = u]
                    /\ UNCHANGED <<users, ustate, service_id, mtx, guard, lifeVars,
                                   recvVars, sendVars, netVars, loc, ret, recvHist,
                                   sendHist, refHist, crashed>>

InitFair ==
    /\ InitCommon
    /\ rows = [u \in Users |-> 2]
    /\ sent = [u \in Users |-> <<>>]
    /\ net = sent

NextFair ==
    \/ \E u \in Users : AddCall(Owner, u)
    \/ AddLocked(Owner)
    \/ DestroyCall(Owner, FairB)
    \/ ShutdownDestroy(Owner)
    \/ LookupCall(Owner, service_id[FairB])
    \/ LookupEnter(Owner, service_id[FairB])
    \/ LookupUsers(Owner)
    \/ LookupGuard(Owner)
    \/ Detach(Owner, FairB)
    \/ LookupCall(LocalTask, service_id[FairA])
    \/ LookupGuard(LocalTask)
    \/ Detach(LocalTask, FairA)
    \/ RecvCall(NetTask, FairA, 1)
    \/ RecvFillEof(NetTask)
    \/ RecvFillError(NetTask)
    \/ PeerClose(FairA)

\* Fair scheduling: a fibril suspended on a mutex gets it when it is released
\* again and again, and TCP reports a close that arrived.  Nothing makes a
\* peer send or close, TCP fail or a fibril start a call.
FairSched ==
    \A t \in Tasks :
        /\ SF_vars(AddLocked(t))
        /\ SF_vars(ShutdownDestroy(t))
        /\ SF_vars(LookupUsers(t))
        /\ SF_vars(LookupGuard(t))
        /\ WF_vars(RecvFillEof(t))

SpecFair == InitFair /\ [][NextFair]_vars /\ FairSched

(***************************************************************************)
(* The kernel mutex of mutex.c.  The fibrils are kernel threads here, on   *)
(* any number of processors: a step is one operation on the semaphore.     *)
(* The semaphore itself is code of semaphore.c and waitq.c: a down takes   *)
(* one from the count when it is positive and otherwise fails at once      *)
(* (non-blocking, no timeout) or sleeps; an up wakes the first sleeper or, *)
(* with no sleeper, adds one to the count; a sleeper with a timeout can    *)
(* time out as long as it was not woken.                                   *)
(***************************************************************************)
SYNCH_NO_TIMEOUT == 0
SYNCH_FLAGS_NONE == 0
SYNCH_FLAGS_NON_BLOCKING == 1

userVars == <<regVars, guard, lifeVars, recvVars, sendVars, netVars, cur,
              recvHist, sendHist, refHist, crashed>>

\* SYNCH_FAILED(rc)
SynchFailed(rc) == rc \in {"ESYNCH_WOULD_BLOCK", "ESYNCH_TIMEOUT", "ESYNCH_INTERRUPTED"}

\* flags & SYNCH_FLAGS_NON_BLOCKING
NonBlocking(flags) == flags = SYNCH_FLAGS_NON_BLOCKING

\* semaphore_trydown on m: the result and the mutex after it.
SemaphoreTrydown(m) ==
    IF m.missed_wakeups > 0
    THEN [rc |-> "ESYNCH_OK_ATOMIC", m |-> [m EXCEPT !.missed_wakeups = @ - 1]]
    ELSE [rc |-> "ESYNCH_WOULD_BLOCK", m |-> m]

\* semaphore_up on m by thread t.
SemaphoreUp(m) ==
    IF m.sleepers # <<>>
    THEN [m EXCEPT !.sleepers = Tail(@)]
    ELSE [m EXCEPT !.missed_wakeups = @ + 1]

\* _mutex_lock_timeout returns rc to thread t and leaves the mutex as m.
LockReturn(t, rc, l, m) ==
    /\ mtx' = IF SynchFailed(rc) THEN m ELSE [m EXCEPT !.locked_by = @ \cup {t}]
    /\ pc' = [pc EXCEPT ![t] = "idle"]
    /\ loc' = [loc EXCEPT ![t] = NoLoc]
    /\ ret' = [NoRet EXCEPT !.op = "mutex_lock", !.thread = t, !.rc = rc,
                   !.tries = l.tries, !.usec = l.usec, !.flags = l.flags,
                   !.before = l.count, !.after = m.missed_wakeups]

\* The locals of a lock attempt: its arguments, the try-downs made and the
\* count of the semaphore when the attempt started.
LockLoc(usec, flags, tries) ==
    [NoLoc EXCEPT !.op = "mutex_lock", !.usec = usec, !.flags = flags,
         !.tries = tries, !.count = mtx.missed_wakeups]

\* rc = _semaphore_down_timeout(&mtx->sem, usec, flags)
LockPassive(t, l) ==
    IF mtx.missed_wakeups > 0
    THEN LockReturn(t, "ESYNCH_OK_ATOMIC", l, [mtx EXCEPT !.missed_wakeups = @ - 1])
    ELSE IF l.usec = SYNCH_NO_TIMEOUT /\ NonBlocking(l.flags)
         THEN LockReturn(t, "ESYNCH_WOULD_BLOCK", l, mtx)
         ELSE /\ mtx' = [mtx EXCEPT !.sleepers = Append(@, t)]
              /\ pc' = [pc EXCEPT ![t] = "sleep"]
              /\ loc' = [loc EXCEPT ![t] = l]
              /\ ret' = ret

\* Mutant: the loop of the active mutex makes one try-down.
ActiveRetry_Never(rc, flags) == FALSE

\* while (SYNCH_FAILED(rc) && !(flags & SYNCH_FLAGS_NON_BLOCKING))
ActiveRetry(rc, flags) == SynchFailed(rc) /\ ~NonBlocking(flags)

\* One pass of the do-while loop of the active mutex.
LockActive(t, l) ==
    LET r == SemaphoreTrydown(mtx)
        l2 == [l EXCEPT !.tries = Min(@ + 1, MaxTries)]
    IN IF ActiveRetry(r.rc, l.flags)
       THEN /\ mtx' = r.m
            /\ pc' = [pc EXCEPT ![t] = "spin"]
            /\ loc' = [loc EXCEPT ![t] = l2]
            /\ ret' = ret
       ELSE LockReturn(t, r.rc, l2, r.m)

\* _mutex_lock_timeout(mtx, usec, flags) up to its first operation on the
\* semaphore (the active mutex asserts usec == SYNCH_NO_TIMEOUT).
MutexLock(t, usec, flags) ==
    /\ pc[t] = "idle"
    /\ IF mtx.type = MUTEX_PASSIVE
       THEN LockPassive(t, LockLoc(usec, flags, 0))
       ELSE /\ usec = SYNCH_NO_TIMEOUT
            /\ LockActive(t, LockLoc(usec, flags, 0))
    /\ UNCHANGED userVars

\* The next try-down of an active lock attempt.
MutexSpin(t) ==
    /\ pc[t] = "spin"
    /\ LockActive(t, loc[t])
    /\ UNCHANGED userVars

\* The timeout of a sleeping lock attempt expires.
MutexTimeout(t) ==
    /\ pc[t] = "sleep"
    /\ loc[t].usec # SYNCH_NO_TIMEOUT
    /\ LockReturn(t, "ESYNCH_TIMEOUT", loc[t],
                  [mtx EXCEPT !.sleepers = SelectSeq(@, LAMBDA x : x # t)])
    /\ UNCHANGED userVars

\* A woken sleeper returns from _semaphore_down_timeout.
MutexWoken(t) ==
    /\ pc[t] = "woken"
    /\ LockReturn(t, "ESYNCH_OK_BLOCKED", loc[t], mtx)
    /\ UNCHANGED userVars

\* mutex_unlock(mtx) by a thread whose last lock attempt succeeded.
MutexUnlock(t) ==
    /\ pc[t] = "idle"
    /\ t \in mtx.locked_by
    /\ mtx' = [SemaphoreUp(mtx) EXCEPT !.locked_by = @ \ {t}]
    /\ pc' = IF mtx.sleepers # <<>>
             THEN [pc EXCEPT ![Head(mtx.sleepers)] = "woken"]
             ELSE pc
    /\ UNCHANGED <<userVars, loc, ret>>

Usecs == {SYNCH_NO_TIMEOUT, 1}
Flags == {SYNCH_FLAGS_NONE, SYNCH_FLAGS_NON_BLOCKING}

InitMutex ==
    /\ InitUsers
    /\ rows = [u \in Users |-> 2]
    /\ sent = [u \in Users |-> <<>>]
    /\ net = sent
    /\ \E type \in {MUTEX_PASSIVE, MUTEX_ACTIVE} : mtx = MutexInitialize(type)

NextMutex ==
    \/ \E t \in Tasks, usec \in Usecs, flags \in Flags : MutexLock(t, usec, flags)
    \/ \E t \in Tasks : MutexSpin(t)
    \/ \E t \in Tasks : MutexTimeout(t)
    \/ \E t \in Tasks : MutexWoken(t)
    \/ \E t \in Tasks : MutexUnlock(t)

SpecMutex == InitMutex /\ [][NextMutex]_vars

(***************************************************************************)
(* Reference filters the receive claims compare against.                   *)
(***************************************************************************)
\* What telnet_user_recv stores when the whole of s sits in one buffer.
RECURSIVE OneChunk(_, _)
OneChunk(s, inside) ==
    IF s = <<>> THEN <<>>
    ELSE LET f == FilterByte(inside, Head(s))
             nb == CrLfConv(f.next_byte)
         IN (IF nb # NUL THEN <<nb>> ELSE <<>>) \o OneChunk(Tail(s), f.inside)

\* The three-state filter: state is "normal", "command" or "option".
RECURSIVE ThreeState(_, _)
ThreeState(s, st) ==
    IF s = <<>> THEN <<>>
    ELSE LET b == Head(s)
         IN CASE st = "normal" ->
                   IF b = TELNET_IAC THEN ThreeState(Tail(s), "command")
                   ELSE IF b = CR THEN <<LF>> \o ThreeState(Tail(s), "normal")
                   ELSE IF b = NUL THEN ThreeState(Tail(s), "normal")
                   ELSE <<b>> \o ThreeState(Tail(s), "normal")
              [] st = "command" ->
                   IF b \in 251 .. 254 THEN ThreeState(Tail(s), "option")
                   ELSE ThreeState(Tail(s), "normal")
              [] OTHER -> ThreeState(Tail(s), "normal")

\* The receive path has consumed everything the peer sent.
RecvDrained(u) ==
    /\ net[u] = <<>>
    /\ ~ByteAvail(socket_buffer_len[u], socket_buffer_pos[u])

\* C2: however TCP chunks the peer's stream, once all of it is consumed the
\* bytes delivered are those delivered when it arrives as one chunk.
C2_ChunkingIndependent ==
    RecvDrained(RecvUser) =>
        delivered[RecvUser] = OneChunk(sent[RecvUser], FALSE)

\* C3: when the peer's bytes were held in one receive buffer and are consumed,
\* the bytes delivered are the output of the three-state filter.
C3_ThreeStateFilter ==
    (nfills[RecvUser] = 1 /\ RecvDrained(RecvUser)) =>
        delivered[RecvUser] = ThreeState(sent[RecvUser], "normal")

\* C4: no byte telnet_user_recv stores for a caller is NUL, CR or IAC.
C4_NoNulCrIac ==
    /\ \A i \in 1 .. Len(delivered[RecvUser]) :
           delivered[RecvUser][i] \notin {NUL, CR, TELNET_IAC}
    /\ \A i \in 1 .. Len(ret.data) : ret.data[i] \notin {NUL, CR, TELNET_IAC}
    /\ \A t \in Tasks : \A i \in 1 .. Len(loc[t].dst) :
           loc[t].dst[i] \notin {NUL, CR, TELNET_IAC}

\* C4 witness: a call delivered the LF a CR was folded to, after more than one fill.
C4_Witness ==
    /\ nfills[RecvUser] >= 2
    /\ \E i \in 1 .. Len(sent[RecvUser]) : sent[RecvUser][i] = CR
    /\ \E i \in 1 .. Len(sent[RecvUser]) : sent[RecvUser][i] = TELNET_IAC
    /\ \E i \in 1 .. Len(delivered[RecvUser]) : delivered[RecvUser][i] = LF

\* C7: a telnet_user_recv that returns the peer-closed error has set
\* socket_closed and srvs.aborted, and once socket_closed is set every call of
\* telnet_user_recv returns the peer-closed error and delivers nothing.
C7_ClosedRecvPeerClosed ==
    /\ (ret.op = "recv" /\ ret.rc = "ENOENT") =>
           (socket_closed[ret.user] /\ srv_aborted[ret.user])
    /\ (ret.op = "recv" /\ ret.pre) => (ret.rc = "ENOENT" /\ ret.n = 0)

\* The parts of C7 the code keeps: socket_closed is never reset, and a call
\* entered with socket_closed set returns an error and delivers nothing.
C7_ClosedStays == [][\A u \in Users : socket_closed[u] => socket_closed'[u]]_vars
C7_ClosedRecvFails ==
    (ret.op = "recv" /\ ret.pre) => (ret.rc # "EOK" /\ ret.n = 0 /\ ret.data = <<>>)

\* C19: telnet_user_recv is in tcp_conn_recv_wait only with the buffer
\* drained and nothing stored yet in the call, and a call that returns an
\* error stored nothing.
C19_FillOnlyWhenDrained ==
    /\ \A t \in Tasks : pc[t] = "recv_wait" =>
           /\ ~ByteAvail(socket_buffer_len[cur[t]], socket_buffer_pos[cur[t]])
           /\ loc[t].nread = 0
           /\ loc[t].dst = <<>>
    /\ (ret.op = "recv" /\ ret.rc # "EOK") => (ret.n = 0 /\ ret.data = <<>>)

\* C19 witness: a call that skipped the NUL left in the buffer by the call
\* before it waits for TCP with nothing stored.
C19_Witness ==
    /\ pc[RecvTask] = "recv_wait"
    /\ nfills[RecvUser] >= 1
    /\ delivered[RecvUser] # <<>>
    /\ socket_buffer_len[RecvUser] >= 2
    /\ socket_buffer_pos[RecvUser] = socket_buffer_len[RecvUser]
    /\ socket_buffer[RecvUser][socket_buffer_len[RecvUser]] = NUL
    /\ ret.op = "recv" /\ ret.rc = "EOK" /\ ret.cap = 1

\* C8: a successful telnet_user_recv reports 1 <= n <= cap and stored n bytes.
C8_RecvCount ==
    (ret.op = "recv" /\ ret.rc = "EOK") =>
        /\ ret.n >= 1
        /\ ret.n <= ret.cap
        /\ Len(ret.data) = ret.n

\* C8 witness: a call that found only a NUL and a command buffered returned
\* one byte after a further fill.
C8_Witness ==
    /\ sent[RecvUser] = <<NUL, TELNET_IAC, 65, 65>>
    /\ nfills[RecvUser] = 2
    /\ socket_buffer[RecvUser] = <<65>>
    /\ net[RecvUser] = <<>>
    /\ ret.op = "recv" /\ ret.rc = "EOK"
    /\ ret.n = 1
    /\ delivered[RecvUser] = <<65>>

(***************************************************************************)
(* Send claims.                                                            *)
(***************************************************************************)
\* S with every LF replaced by CR LF.
RECURSIVE ExpandLf(_)
ExpandLf(S) ==
    IF Len(S) = 0 THEN <<>>
    ELSE LET last == S[Len(S)]
             front == ExpandLf(SubSeq(S, 1, Len(S) - 1))
         IN IF last = 10 THEN front \o <<13, 10>> ELSE Append(front, last)

SendQuiet(u) ==
    /\ \A t \in Tasks : pc[t] = "idle"
    /\ send_buf_used[u] = 0

\* C5: after send_data calls and a flush, with no TCP send error, the bytes
\* handed to TCP are the submitted bytes with every LF replaced by CR LF.
C5_WireIsExpansion ==
    (SendQuiet(SendUser) /\ ~send_failed[SendUser] /\ ~raw_used[SendUser]) =>
        Bytes(wire[SendUser]) = ExpandLf(submitted[SendUser])

\* C5 witness: three send_data calls, a CR LF pair split over the batch
\* boundary, then a flush.
C5_Witness ==
    /\ SendQuiet(SendUser) /\ ~send_failed[SendUser] /\ ~raw_used[SendUser]
    /\ ncalls[SendUser] = 3
    /\ submitted[SendUser] = <<97, LF, 97>>
    /\ Bytes(wire[SendUser]) = <<97, CR, LF, 97>>
    /\ ret.op = "flush" /\ ret.rc = "EOK"

(***************************************************************************)
(* Cursor claims.                                                          *)
(***************************************************************************)
\* The number of bytes of S that are in the set B.
RECURSIVE CountIn(_, _)
CountIn(S, B) ==
    IF S = <<>> THEN 0
    ELSE (IF Head(S) \in B THEN 1 ELSE 0) + CountIn(Tail(S), B)

\* The bytes of S after its last LF (all of S when it has none).
RECURSIVE AfterLastLf(_)
AfterLastLf(S) ==
    IF S = <<>> THEN <<>>
    ELSE IF S[Len(S)] = 10 THEN <<>>
    ELSE Append(AfterLastLf(SubSeq(S, 1, Len(S) - 1)), S[Len(S)])

\* The cursor the claim gives after data from c: the column restarts at the
\* last LF and moves by one per byte, left on backspace; the row moves by
\* one per LF and stops at nrows - 1.
CursorClaimed(c, nrows, data) ==
    LET lfs == CountIn(data, {10})
        tl == AfterLastLf(data)
        bs == CountIn(tl, {8})
    IN [x |-> (IF lfs > 0 THEN 0 ELSE c.x) + (Len(tl) - bs) - bs,
        y |-> IF c.y >= nrows - 1 THEN c.y ELSE Min(c.y + lfs, nrows - 1)]

\* C16: telnet_user_send_data leaves the cursor where the byte-by-byte rule
\* puts it (backspace one column left, unclamped; LF to column 0 and one row
\* down up to rows - 1; any other byte one column right), so cursor_y never
\* passes rows - 1 and "a LF b" from (0,0) ends at (1,1).
C16_CursorRule ==
    /\ ret.op = "send_data" =>
          /\ ret.c1 = CursorClaimed(ret.c0, rows[ret.user], ret.data)
          /\ (ret.data = <<97, 10, 98>> /\ ret.c0 = [x |-> 0, y |-> 0])
                 => ret.c1 = [x |-> 1, y |-> 1]
    /\ \A u \in Users : cursor_y[u] <= rows[u] - 1

\* C16 witness: "a LF b" was sent from (0,0), and later an LF on the last row
\* left cursor_y where it was.
C16_Witness ==
    /\ ret.op = "send_data" /\ ret.data = <<10>>
    /\ ret.c0.y = rows[ret.user] - 1 /\ ret.c1.y = ret.c0.y
    /\ Len(submitted[ret.user]) >= 3
    /\ SubSeq(submitted[ret.user], 1, 3) = <<97, 10, 98>>

\* C17: telnet_user_update_cursor_x(new_x) appends one backspace to the send
\* stream when new_x = cursor_x - 1 and nothing otherwise; cursor_x = new_x
\* when it returns and cursor_y is unchanged.
C17_UpdateCursorX ==
    ret.op = "update_cursor_x" =>
        /\ ret.new_x = ret.c0.x - 1 => ret.app = <<8>>
        /\ ret.new_x # ret.c0.x - 1 => ret.app = <<>>
        /\ ret.c1.x = ret.new_x
        /\ ret.c1.y = ret.c0.y

\* C17 amended: as C17, but when the batch is full and the tcp_conn_send that
\* has to empty it fails, the backspace is dropped.
C17_UpdateCursorXUnlessSendFails ==
    ret.op = "update_cursor_x" =>
        /\ (ret.new_x = ret.c0.x - 1 /\ ~ret.failed) => ret.app = <<8>>
        /\ (ret.new_x = ret.c0.x - 1 /\ ret.failed) =>
               (ret.app = <<>> /\ ret.before = SEND_BUF_SIZE)
        /\ ret.new_x # ret.c0.x - 1 => (ret.app = <<>> /\ ~ret.failed)
        /\ ret.c1.x = ret.new_x
        /\ ret.c1.y = ret.c0.y

\* C17 witness: the backspace went into a full batch after a successful
\* tcp_conn_send.
C17_Witness ==
    /\ ret.op = "update_cursor_x" /\ ret.new_x = ret.c0.x - 1
    /\ ret.before = SEND_BUF_SIZE /\ ~ret.failed
    /\ ret.app = <<8>>
    /\ send_buf_used[ret.user] = 1
    /\ cursor_x[ret.user] = ret.new_x

(***************************************************************************)
(* Batch claims.                                                           *)
(***************************************************************************)
\* C18: telnet_user_flush on an empty batch returns EOK, puts nothing on the
\* wire and leaves send_buf_used at 0 and the rest of the session as it was.
C18_EmptyFlushNoop ==
    [][\A t \in Tasks, u \in Users :
          (cur[t] = u /\ pc[t] = "flush_send" /\ pc'[t] = "idle"
              /\ send_buf_used[u] = 0) =>
          /\ ret'.rc = "EOK"
          /\ wire'[u] = wire[u]
          /\ Snapshot(u)' = Snapshot(u)]_vars

\* C20: telnet_user_send_data and telnet_user_send_raw call tcp_conn_send only
\* with a full batch and bytes left to append; the send carries SEND_BUF_SIZE
\* bytes and the append goes on from send_buf_used = 0; nothing else but
\* telnet_user_flush puts bytes on the wire.
C20_BatchPolicy ==
    [][\A t \in Tasks, u \in Users :
          /\ (pc'[t] = "tcp_send" /\ cur'[t] = u) =>
                 (send_buf_used'[u] = SEND_BUF_SIZE /\ Len(loc'[t].rest) > 0)
          /\ (pc[t] = "tcp_send" /\ cur[t] = u /\ wire'[u] # wire[u]) =>
                 /\ Len(wire'[u]) = Len(wire[u]) + SEND_BUF_SIZE
                 /\ send_buf_used'[u] = Min(Len(loc[t].rest), SEND_BUF_SIZE)
          /\ (pc[t] = "idle" /\ cur'[t] = u) => wire'[u] = wire[u]
          /\ wire'[u] # wire[u] =>
                 \E o \in Tasks : cur[o] = u /\ pc[o] \in {"tcp_send", "flush_send"}]_vars

\* C20 witness: calls before filled the batch to the last byte without a
\* tcp_conn_send; the next call overflows it and is in tcp_conn_send.
C20_Witness ==
    \E t \in Tasks :
        /\ pc[t] = "tcp_send"
        /\ loc[t].entry.used = SEND_BUF_SIZE
        /\ wire[cur[t]] = <<>>
        /\ ncalls[cur[t]] >= 2

\* Every byte the session took for TCP, in TCP order: on the wire, then batched.
Outbound(u) == wire[u] \o send_buf[u]

\* C6: the bytes of one call are contiguous in the TCP stream and the calls
\* follow one another in the order they took the guard.
C6_CallsContiguous ==
    LET w == Outbound(SendUser)
    IN \A i, j \in 1 .. Len(w) : i < j => w[i][2] <= w[j][2]

\* C6 witness: a call is suspended in its second tcp_conn_send while another
\* fibril, which sent before it, is free to call again.
C6_Witness ==
    \E t, o \in Tasks :
        /\ t # o
        /\ pc[t] = "tcp_send"
        /\ \E i \in 1 .. Len(wire[SendUser]) : wire[SendUser][i][2] = ncalls[SendUser]
        /\ \E i \in 1 .. Len(wire[SendUser]) : wire[SendUser][i][2] < ncalls[SendUser]
        /\ pc[o] = "idle" /\ ncalls[SendUser] >= 2

(***************************************************************************)
(* Registry and reference-count claims.                                    *)
(***************************************************************************)
\* C1: a lookup of the service id of a registered zombie returns NULL and
\* leaves locsrv_connection_count as it was; no caller gets a zombie.
C1_ZombieLookupRefused ==
    (ret.op = "lookup" /\ ret.reg /\ ret.pre) =>
        (ret.rc = "EOK" /\ ret.res = NoUser /\ ret.after = ret.before)

\* C9: a lookup of the service id of a registered user that is no zombie
\* returns that user with its count raised by one; a lookup never returns a
\* user that is not registered, so never one that was destroyed.
C9_RegisterLookupDestroy ==
    /\ ret.op = "lookup" =>
         /\ (ret.reg /\ ~ret.pre) => (ret.res = ret.user /\ ret.after = ret.before + 1)
         /\ ~ret.reg => ret.res = NoUser
         /\ ret.res # NoUser => ret.res = ret.user
    /\ \A u \in Users : ustate[u] = "freed" => ListFind(users, service_id[u]) = NoUser

\* C9 witness: a fibril looked a user up and got it; the user was then
\* destroyed and the next lookup of its id found nothing.
C9_Witness ==
    /\ ret.op = "lookup" /\ ret.user # NoUser /\ ret.res = NoUser
    /\ ustate[ret.user] = "freed"
    /\ \E t \in Tasks : held[t][ret.user] > 0
    /\ \E o \in Users : o # ret.user /\ ustate[o] = "added"

\* C10: locsrv_connection_count is never negative and equals the successful
\* lookups minus the detaches.
C10_CountIsAttachesMinusDetaches ==
    \A u \in Users :
        /\ locsrv_connection_count[u] >= 0
        /\ locsrv_connection_count[u] = Refs(u)

\* C11: a destroyed session is a zombie whose locsrv_connection_count is 0 and
\* no fibril holds a reference to it that it got from the lookup.
C11_DestroyedUnheld ==
    \A u \in Users : ustate[u] = "freed" =>
        (Zombie(u) /\ locsrv_connection_count[u] = 0 /\ Refs(u) = 0)

(***************************************************************************)
(* Locks and buffer indices.                                               *)
(***************************************************************************)
HoldsGuard(t) == \E u \in Users : guard[u] = t

\* C12: a fibril that holds a session guard is inside a TCP call or inside
\* the lookup, which took users_guard first; it is never at a point where it
\* asks for users_guard, so no fibril waits for users_guard on a fibril that
\* waits for a session guard it holds.
C12_LockOrder ==
    /\ \A t \in Tasks : HoldsGuard(t) =>
           \/ pc[t] \in {"recv_wait", "tcp_send", "flush_send"} /\ users_guard # t
           \/ pc[t] = "killed" /\ users_guard = t
    /\ \A t \in Tasks : users_guard = t => pc[t] \in {"lookup_guard", "killed"}
    /\ \A t, o \in Tasks :
           (pc[t] = "lookup_guard" /\ guard[cur[t]] = o) => pc[o] # "destroy"

\* C12 witness: the lookup holds users_guard and waits for the guard the
\* network fibril holds inside tcp_conn_recv_wait.
C12_Witness ==
    /\ pc[LocalTask] = "lookup_guard" /\ users_guard = LocalTask
    /\ cur[LocalTask] = LifeUser
    /\ guard[LifeUser] = NetTask /\ pc[NetTask] = "recv_wait"

\* C13: 0 <= socket_buffer_pos <= socket_buffer_len <= BUFFER_SIZE and
\* 0 <= send_buf_used <= SEND_BUF_SIZE in every state.
C13_IndexBounds ==
    \A u \in Users :
        /\ 0 <= socket_buffer_pos[u]
        /\ socket_buffer_pos[u] <= socket_buffer_len[u]
        /\ socket_buffer_len[u] <= BUFFER_SIZE
        /\ 0 <= send_buf_used[u]
        /\ send_buf_used[u] <= SEND_BUF_SIZE

\* C13 witness: both buffers at their limits after the peer closed and a
\* tcp_conn_send failed.
C13_Witness ==
    /\ socket_buffer_len[LifeUser] = BUFFER_SIZE
    /\ socket_buffer_pos[LifeUser] = BUFFER_SIZE
    /\ send_buf_used[LifeUser] = SEND_BUF_SIZE
    /\ socket_closed[LifeUser]
    /\ send_failed[LifeUser]

\* A call of fibril t on user u returns in this step after its TCP call failed.
TcpFailureReturn(t, u) ==
    /\ cur[t] = u
    /\ pc[t] \in {"recv_wait", "tcp_send", "flush_send"}
    /\ pc'[t] = "idle"
    /\ loc[t].op # "update_cursor_x"
    /\ ret'.failed \/ ret'.rc = "EIO"

\* C15: when a call of telnet_user_recv, telnet_user_send_data,
\* telnet_user_send_raw or telnet_user_flush returns because TCP failed, it
\* returns the error and the session is in the state it had before the call
\* (for telnet_user_recv: before tcp_conn_recv_wait was called).
C15_ErrorRestoresEntry ==
    [][\A t \in Tasks, u \in Users : TcpFailureReturn(t, u) =>
          /\ ret'.rc = "EIO"
          /\ Snapshot(u)' = (IF loc[t].op = "recv" THEN Snapshot(u) ELSE loc[t].entry)]_vars

\* C15 amended: such a call returns the error and the session is in the
\* state it had when the failing TCP call was made.
C15_ErrorKeepsState ==
    [][\A t \in Tasks, u \in Users : TcpFailureReturn(t, u) =>
          /\ ret'.rc = "EIO"
          /\ Snapshot(u)' = Snapshot(u)]_vars

\* C15 witness: telnet_user_send_data returned the TCP error after it had
\* moved the cursor and filled the batch, and telnet_user_recv returned one too.
C15_Witness ==
    /\ ret.op = "send_data" /\ ret.failed /\ ret.rc = "EIO"
    /\ ret.c1 # ret.c0
    /\ send_buf_used[LifeUser] # ret.before
    /\ nfills[LifeUser] >= 1 /\ ~socket_closed[LifeUser]
    /\ socket_buffer_pos[LifeUser] = socket_buffer_len[LifeUser]

\* C14: a fibril asleep on refcount_cv is never left asleep once the condition
\* it waits for holds: every change that makes it true signals refcount_cv.
C14_WaiterWoken ==
    \A t \in Tasks : pc[t] = "cv_wait" => ~CanDestroy(cur[t])

(***************************************************************************)
(* Progress of the registry.                                               *)
(***************************************************************************)
\* Fibril t is inside telnet_user_add, telnet_user_destroy or
\* telnet_user_get_for_client_connection for session u.
InRegistryCall(t, u) ==
    \/ pc[t] \in {"add", "destroy", "lookup_guard"} /\ cur[t] = u
    \/ pc[t] = "lookup_users" /\ loc[t].cap = service_id[u]

\* C21: under fair scheduling every telnet_user_add, telnet_user_destroy and
\* telnet_user_get_for_client_connection for session FairB returns (or the
\* server task is killed), whatever the peer of session FairA does, also while
\* FairA's network fibril sits in tcp_conn_recv_wait and another fibril looks
\* FairA up.
C21_RegistryProgress ==
    \A t \in Tasks :
        (InRegistryCall(t, FairB) /\ ~crashed) ~> (pc[t] = "idle" \/ crashed)
(***************************************************************************)
(* The kernel mutex.                                                       *)
(***************************************************************************)
\* Thread t returns from _mutex_lock_timeout in this step (a step that takes
\* a thread out of locked_by is a mutex_unlock).
LockReturns(t) ==
    /\ ret'.op = "mutex_lock" /\ ret'.thread = t
    /\ pc'[t] = "idle"
    /\ mtx.locked_by \subseteq mtx'.locked_by
    /\ pc[t] # "idle" \/ ret' # ret \/ mtx' # mtx

\* C22: with mutex_unlock called only by a thread whose own lock attempt
\* succeeded, at most one thread holds the mutex, passive or active; a lock
\* attempt that fails leaves the count of the semaphore as it was (in the
\* step that returns, and from the start of the attempt to its return), a
\* failing attempt on an active mutex with the non-blocking flag made exactly
\* one try-down, and an attempt on an active mutex without the flag returns
\* only from a try-down that succeeded, which took one from the count.
C22_MutexOverSemaphore ==
    [][/\ Cardinality(mtx.locked_by) <= 1
       /\ Cardinality(mtx'.locked_by) <= 1
       /\ \A t \in Tasks :
            LockReturns(t) =>
              /\ SynchFailed(ret'.rc) =>
                   /\ mtx'.missed_wakeups = mtx.missed_wakeups
                   /\ ret'.after = ret'.before
                   /\ t \in mtx'.locked_by <=> t \in mtx.locked_by
                   /\ (mtx.type = MUTEX_ACTIVE /\ NonBlocking(ret'.flags)) =>
                          ret'.tries = 1
              /\ (mtx.type = MUTEX_ACTIVE /\ ~NonBlocking(ret'.flags)) =>
                   /\ ret'.rc = "ESYNCH_OK_ATOMIC"
                   /\ mtx'.missed_wakeups = mtx.missed_wakeups - 1
                   /\ t \in mtx'.locked_by]_vars

\* A non-blocking attempt on an active mutex failed after one try-down while
\* another thread holds the mutex and a third one spins on it.
C22_Witness ==
    /\ mtx.type = MUTEX_ACTIVE
    /\ ret.op = "mutex_lock" /\ ret.rc = "ESYNCH_WOULD_BLOCK" /\ ret.tries = 1
    /\ \E h \in mtx.locked_by : h # ret.thread
    /\ \E w \in Tasks : pc[w] = "spin" /\ w # ret.thread

\* A sleeper on a passive mutex timed out while another thread holds the
\* mutex and a third one still sleeps.
C22_WitnessTimeout ==
    /\ mtx.type = MUTEX_PASSIVE
    /\ ret.op = "mutex_lock" /\ ret.rc = "ESYNCH_TIMEOUT"
    /\ \E h \in mtx.locked_by : h # ret.thread
    /\ Len(mtx.sleepers) = 1

\* A sleeper was handed a passive mutex by mutex_unlock and holds it.
C22_WitnessHandOff ==
    /\ mtx.type = MUTEX_PASSIVE
    /\ ret.op = "mutex_lock" /\ ret.rc = "ESYNCH_OK_BLOCKED"
    /\ mtx.locked_by = {ret.thread}

\* The count of the semaphore, the threads woken and the holders add up to 1.
C22_OneToken ==
    mtx.missed_wakeups + Cardinality({t \in Tasks : pc[t] = "woken"})
        + Cardinality(mtx.locked_by) = 1
====
